---------------------------- MODULE Spec2Model ----------------------------
(***************************************************************************)
(* Material classification engine (BG-Toolbox, material_classifier_web):   *)
(* taxonomy loader, keyword/brand matcher, validator, the remote-call      *)
(* retry loop with its consecutive-failure counter, and classify_batch.    *)
(*                                                                         *)
(* Text is modelled as a sequence of one-character strings so that         *)
(* normalisation (strip, lower, removal of blanks) is computed, not        *)
(* assumed.                                                                *)
(***************************************************************************)
EXTENDS Integers, Sequences, FiniteSets, TLC

VARIABLES
    classification_mapping,   \* MaterialClassifier._classification_mapping, in insertion order
    continuous_api_failures,  \* self.continuous_api_failures
    pc,                       \* position of the running classify_material call
    material_data,            \* argument of the running / last classify_material call
    attempt,                  \* loop variable of _call_deepseek_api
    ret,                      \* how the last classify_material call ended
    api_calls,                \* history: remote invocations made by the running / last call
    sleep_log,                \* history: backoff sleeps of the running / last call
    failed_since_success,     \* history: failed attempts since the last successful attempt
    last_attempt,             \* history: what the latest remote attempt of the call produced
    ceiling_hit,              \* history: the failure counter has reached MAX_API_FAILURES
    trail,                    \* history: the resolver states the running / last call went through
    materials_list,           \* argument of the running / last classify_batch call
    bpc,                      \* position of classify_batch
    batch_i,                  \* loop variable i of classify_batch
    results,                  \* list built by classify_batch
    rate_sleeps,              \* history: inter-record sleeps of the running / last batch
    cand,                     \* argument of a direct validate_classification_result call
    vret,                     \* outcome of that call
    probe,                    \* argument of a direct KeywordMatcher call
    mret,                     \* outcome of that call
    raw,                      \* text of a response handed to the remote path
    xret,                     \* what the remote path made of it
    norm,                     \* a text and what normalization has made of it
    source,                   \* the taxonomy source the classifier is constructed against
    loaded,                   \* a mapping has been loaded (the mapping attribute is not None)
    built,                    \* how construction ended
    process,                  \* history: objects __new__ has created, loads made, constructor calls
    threads,                  \* worker threads of process_batch: position, attempt, value read
    pool                      \* a process_batch call: its arguments, its executor, its futures

vars == <<classification_mapping, continuous_api_failures, pc, material_data,
          attempt, ret, api_calls, sleep_log, failed_since_success,
          last_attempt, ceiling_hit, trail, materials_list, bpc, batch_i, results,
          rate_sleeps,
          cand, vret, probe, mret, raw, xret, norm, source, loaded,
          built, process, threads, pool>>

classifierVars == <<classification_mapping, continuous_api_failures, pc,
                    material_data, attempt, ret, api_calls, sleep_log,
                    failed_since_success, last_attempt, ceiling_hit, trail>>

callVars == <<continuous_api_failures, pc, material_data, attempt, ret,
              api_calls, sleep_log, failed_since_success, last_attempt,
              ceiling_hit, trail>>

batchVars == <<materials_list, bpc, batch_i, results, rate_sleeps>>

pureVars == <<cand, vret, probe, mret, raw, xret, norm>>

loadVars == <<source, loaded, built, process>>

threadVars == <<threads>>

poolVars == <<pool>>

---------------------------------------------------------------------------
(* Configuration and bounds *)

MAX_RETRIES == 3

MAX_API_FAILURES == 5

\* Cap of the (unbounded) failure counter: no failing attempt is explored beyond it.
MaxFailures == 6

\* Longest list handed to classify_batch.
MaxBatch == 2

\* Most rows of a rules table, and most lines of a rules text.
MaxSource == 3

\* Worker threads that share the classifier.
MaxWorkers == 2

\* Longest text handed to a normalization on its own.
MaxLen == 3

\* Longest list handed to process_batch
MaxTasks == 2

\* Most MaterialClassifier() calls of a run
MaxConstructions == 3

\* Python's None where a text is expected: a value no text equals.
None == <<"None">>

NoError == "NoError"

---------------------------------------------------------------------------
(* Text *)

Whitespace == {" ", "\t", "\n"}

UpperCase == {"P", "L", "I", "U", "Q", "M", "V", "D", "Z", "O", "S", "A"}

LowerChar(c) ==
    CASE c = "P" -> "p" [] c = "L" -> "l" [] c = "I" -> "i" [] c = "U" -> "u"
      [] c = "Q" -> "q" [] c = "M" -> "m" [] c = "V" -> "v" [] c = "D" -> "d"
      [] c = "Z" -> "z" [] c = "O" -> "o" [] c = "S" -> "s" [] c = "A" -> "a"
      [] OTHER -> c

\* str.lower()
Lower(s) == [i \in 1..Len(s) |-> LowerChar(s[i])]

RECURSIVE LStrip(_)
LStrip(s) ==
    IF s = <<>> THEN s
    ELSE IF Head(s) \in Whitespace THEN LStrip(Tail(s)) ELSE s

RECURSIVE RStrip(_)
RStrip(s) ==
    IF s = <<>> THEN s
    ELSE IF s[Len(s)] \in Whitespace THEN RStrip(SubSeq(s, 1, Len(s) - 1)) ELSE s

\* Variant: only line breaks are stripped
RECURSIVE StripNewlines(_)
StripNewlines(s) ==
    IF s = <<>> THEN s
    ELSE IF Head(s) = "\n" THEN StripNewlines(Tail(s))
    ELSE IF s[Len(s)] = "\n" THEN StripNewlines(SubSeq(s, 1, Len(s) - 1))
    ELSE s

\* str.strip()
Strip(s) == RStrip(LStrip(s))

\* str.replace(c, "")
Remove(s, c) == SelectSeq(s, LAMBDA x : x # c)

\* needle in hay
Contains(needle, hay) ==
    \E i \in 0..(Len(hay) - Len(needle)) :
        SubSeq(hay, i + 1, i + Len(needle)) = needle

\* The three separators of the pattern [、,，]: the ASCII comma and, standing for
\* the full-width comma and the enumeration comma, ";" and ":".
Separators == {",", ";", ":"}

RECURSIVE SplitAcc(_, _, _)
SplitAcc(s, cur, acc) ==
    IF s = <<>> THEN Append(acc, cur)
    ELSE IF Head(s) \in Separators
         THEN SplitAcc(Tail(s), <<>>, Append(acc, cur))
         ELSE SplitAcc(Tail(s), Append(cur, Head(s)), acc)

\* re.split(r'[、,，]', s)
Split(s) == SplitAcc(s, <<>>, <<>>)

\* [x.strip() for x in re.split(...) if x.strip()]
SplitList(s) ==
    LET parts == Split(s)
        stripped == [i \in 1..Len(parts) |-> Strip(parts[i])]
    IN SelectSeq(stripped, LAMBDA x : x # <<>>)

\* KeywordMatcher._normalize_text
NormalizeText(text) ==
    IF text = <<>> THEN <<>>
    ELSE Remove(Remove(Remove(Strip(Lower(text)), " "), "\t"), "\n")

\* .strip().lower().replace(' ', '').replace('\t', '') of the loader and the validator
NormalizeCategory(s) == Remove(Remove(Lower(Strip(s)), " "), "\t")

---------------------------------------------------------------------------
(* Taxonomy store *)

NaN == <<"n", "a", "n">>

\* The rules table read by pd.read_excel: one record per row, cells as str(cell).
\* A merged main-category cell reads as nan on the rows below its first.
TaxonomyRows ==
    << [main |-> <<"P", " ", "L">>, sub |-> <<"A">>,
        keywords |-> <<"u">>, explanation |-> NaN, brands |-> NaN],
       [main |-> <<"P", " ", "L">>, sub |-> <<"I", "o">>,
        keywords |-> <<"m", ",", "v">>, explanation |-> NaN,
        brands |-> <<"s">>],
       [main |-> NaN, sub |-> <<"U", "p">>,
        keywords |-> <<"v", ";", " ", "u">>, explanation |-> <<"e">>,
        brands |-> <<"D", ":", "s">>],
       [main |-> <<"Q">>, sub |-> <<"I", "o">>,
        keywords |-> NaN, explanation |-> NaN, brands |-> NaN],
       [main |-> NaN, sub |-> NaN,
        keywords |-> <<"m">>, explanation |-> NaN, brands |-> NaN],
       [main |-> <<"q", " ">>, sub |-> <<"I", " ", "o">>,
        keywords |-> <<"u">>, explanation |-> NaN, brands |-> <<"d">>],
       [main |-> NaN, sub |-> <<"Z">>,
        keywords |-> NaN, explanation |-> NaN, brands |-> NaN] >>

\* str(row[col]).strip(), then '' for the missing-value text 'nan'
Cell(c) == LET t == Strip(c) IN IF t = NaN THEN <<>> ELSE t

KeyOf(e) == <<e.nmain, e.nsub>>

Keys(mapping) == {KeyOf(mapping[i]) : i \in 1..Len(mapping)}

\* mapping[key], for a key of the mapping
Lookup(mapping, key) ==
    mapping[CHOOSE i \in 1..Len(mapping) : KeyOf(mapping[i]) = key]

\* mapping[key] = value of a Python dict: a new key goes last, a key already
\* present keeps its place and takes the new value.
DictSet(mapping, e) ==
    IF KeyOf(e) \in Keys(mapping)
    THEN [i \in 1..Len(mapping) |->
             IF KeyOf(mapping[i]) = KeyOf(e) THEN e ELSE mapping[i]]
    ELSE Append(mapping, e)

\* Variant: the main category is not carried over to the rows below
RECURSIVE LoadRowsWithoutCarry(_, _, _)
LoadRowsWithoutCarry(rows, current_main_category, mapping) ==
    IF rows = <<>> THEN mapping
    ELSE LET row == Head(rows)
             main_cat == Cell(row.main)
             sub_cat == Cell(row.sub)
             entry == [nmain |-> NormalizeCategory(main_cat),
                       nsub |-> NormalizeCategory(sub_cat),
                       omain |-> main_cat, osub |-> sub_cat,
                       keywords |-> Cell(row.keywords),
                       explanation |-> Cell(row.explanation),
                       common_brands |-> Cell(row.brands)]
         IN IF main_cat # <<>> /\ sub_cat # <<>>
            THEN LoadRowsWithoutCarry(Tail(rows), main_cat,
                                      DictSet(mapping, entry))
            ELSE LoadRowsWithoutCarry(Tail(rows), main_cat, mapping)

\* The loop over the rows of load_classification_standards
RECURSIVE LoadRows(_, _, _)
LoadRows(rows, current_main_category, mapping) ==
    IF rows = <<>> THEN mapping
    ELSE LET row == Head(rows)
             main_cat == Cell(row.main)
             sub_cat == Cell(row.sub)
             current == IF main_cat # <<>> THEN main_cat
                        ELSE current_main_category
             entry == [nmain |-> NormalizeCategory(current),
                       nsub |-> NormalizeCategory(sub_cat),
                       omain |-> current, osub |-> sub_cat,
                       keywords |-> Cell(row.keywords),
                       explanation |-> Cell(row.explanation),
                       common_brands |-> Cell(row.brands)]
         IN IF current # <<>> /\ sub_cat # <<>>
            THEN LoadRows(Tail(rows), current, DictSet(mapping, entry))
            ELSE LoadRows(Tail(rows), current, mapping)

\* MaterialClassifier.load_classification_standards: the mapping it returns,
\* or the error raised when no row yields an entry.
load_classification_standards(rows) ==
    LET m == LoadRows(rows, <<>>, <<>>)
    IN IF m # <<>> THEN [error |-> NoError, mapping |-> m]
       ELSE [error |-> "ValueError", mapping |-> m]

\* The rules text of the prompt template, line by line. A line is the heading
\* of the rules block (start), a line beginning with the examples heading
\* (example), a line beginning with the rule prefix (rule, with the parts its
\* remainder splits into at the sub-category label), or any other line.
Line(t) == [t |-> t]

RuleLine(parts) == [t |-> "rule", parts |-> parts]

\* The loop that finds start_idx and end_idx; 0 stands for None, and the
\* indices are those of the first rule line and of the examples line.
RECURSIVE ScanLines(_, _, _)
ScanLines(lines, i, start_idx) ==
    IF i > Len(lines) THEN [start_idx |-> start_idx, end_idx |-> 0]
    ELSE IF lines[i].t = "start" THEN ScanLines(lines, i + 1, i + 1)
    ELSE IF start_idx # 0 /\ lines[i].t = "example"
         THEN [start_idx |-> start_idx, end_idx |-> i]
    ELSE ScanLines(lines, i + 1, start_idx)

RECURSIVE LoadRules(_, _)
LoadRules(classification_rules, mapping) ==
    IF classification_rules = <<>> THEN mapping
    ELSE LET rule == Head(classification_rules)
             main_category == Strip(rule.parts[1])
             sub_category == Strip(rule.parts[2])
             entry == [nmain |-> NormalizeCategory(main_category),
                       nsub |-> NormalizeCategory(sub_category),
                       omain |-> main_category, osub |-> sub_category,
                       keywords |-> <<>>, explanation |-> <<>>,
                       common_brands |-> <<>>]
         IN IF /\ rule.t = "rule"
               /\ Len(rule.parts) = 2
               /\ main_category # <<>>
               /\ sub_category # <<>>
            THEN LoadRules(Tail(classification_rules), DictSet(mapping, entry))
            ELSE LoadRules(Tail(classification_rules), mapping)

\* load_classification_standards of the variant that reads the rules from the
\* prompt template
load_classification_standards_from_prompt(lines) ==
    LET idx == ScanLines(lines, 1, 0)
    IN IF idx.start_idx = 0 \/ idx.end_idx = 0
       THEN [error |-> "ValueError", mapping |-> <<>>]
       ELSE [error |-> NoError,
             mapping |-> LoadRules(SubSeq(lines, idx.start_idx, idx.end_idx - 1),
                                   <<>>)]

---------------------------------------------------------------------------
(* Validator *)

\* "not x" of Python for a field read with result.get: absent or empty
Falsy(x) == x = None \/ x = <<>>

Get(obj, k) == IF k \in DOMAIN obj THEN obj[k] ELSE None

\* Variant: the membership test without the rewrite to the stored spelling
validate_keeping_spelling(mapping, result) ==
    LET main_category == Get(result, "main_category")
        sub_category == Get(result, "sub_category")
    IN IF Falsy(main_category) \/ Falsy(sub_category)
       THEN [error |-> "Incomplete", result |-> result,
             mapping |-> mapping]
       ELSE IF <<NormalizeCategory(main_category),
                 NormalizeCategory(sub_category)>> \notin Keys(mapping)
            THEN [error |-> "NotInStandard", result |-> result,
             mapping |-> mapping]
            ELSE [error |-> NoError, result |-> result,
             mapping |-> mapping]

\* Variant: only main_category is rewritten
validate_rewriting_main_only(mapping, result) ==
    LET main_category == Get(result, "main_category")
        sub_category == Get(result, "sub_category")
        key == <<NormalizeCategory(main_category),
                 NormalizeCategory(sub_category)>>
    IN IF Falsy(main_category) \/ Falsy(sub_category)
       THEN [error |-> "Incomplete", result |-> result,
             mapping |-> mapping]
       ELSE IF key \notin Keys(mapping)
            THEN [error |-> "NotInStandard", result |-> result,
             mapping |-> mapping]
            ELSE [error |-> NoError,
                  result |-> [result EXCEPT
                      !["main_category"] = Lookup(mapping, key).omain],
                  mapping |-> mapping]

\* Variant: the check that both fields are present and not empty is left out
validate_skipping_completeness(mapping, result) ==
    LET key == <<NormalizeCategory(Get(result, "main_category")),
                 NormalizeCategory(Get(result, "sub_category"))>>
    IN IF key \notin Keys(mapping)
       THEN [error |-> "NotInStandard", result |-> result,
             mapping |-> mapping]
       ELSE [error |-> NoError, result |-> result,
             mapping |-> mapping]

\* Variant: the result is rebuilt from the two stored names and the source
\* tag, its other fields are dropped
validate_rebuilding_result(mapping, result) ==
    LET main_category == Get(result, "main_category")
        sub_category == Get(result, "sub_category")
    IN IF Falsy(main_category) \/ Falsy(sub_category)
       THEN [error |-> "Incomplete", result |-> result, mapping |-> mapping]
       ELSE LET key == <<NormalizeCategory(main_category),
                         NormalizeCategory(sub_category)>>
            IN IF key \notin Keys(mapping)
               THEN [error |-> "NotInStandard", result |-> result,
                     mapping |-> mapping]
               ELSE [error |-> NoError,
                     result |-> [main_category |-> Lookup(mapping, key).omain,
                                 sub_category |-> Lookup(mapping, key).osub,
                                 classification_source
                                     |-> Get(result, "classification_source")],
                     mapping |-> mapping]

\* Variant: the validator normalizes without removing blanks and tabs, other
\* than the loader
validate_keeping_blanks(mapping, result) ==
    LET main_category == Get(result, "main_category")
        sub_category == Get(result, "sub_category")
    IN IF Falsy(main_category) \/ Falsy(sub_category)
       THEN [error |-> "Incomplete", result |-> result, mapping |-> mapping]
       ELSE LET key == <<Lower(Strip(main_category)),
                         Lower(Strip(sub_category))>>
            IN IF key \notin Keys(mapping)
               THEN [error |-> "NotInStandard", result |-> result,
                     mapping |-> mapping]
               ELSE [error |-> NoError,
                     result |-> [result EXCEPT
                         !["main_category"] = Lookup(mapping, key).omain,
                         !["sub_category"] = Lookup(mapping, key).osub],
                     mapping |-> mapping]

\* Variant: the rewrite goes the wrong way, the spelling of the result is
\* stored in the mapping
validate_storing_spelling(mapping, result) ==
    LET main_category == Get(result, "main_category")
        sub_category == Get(result, "sub_category")
    IN IF Falsy(main_category) \/ Falsy(sub_category)
       THEN [error |-> "Incomplete", result |-> result, mapping |-> mapping]
       ELSE LET key == <<NormalizeCategory(main_category),
                         NormalizeCategory(sub_category)>>
            IN IF key \notin Keys(mapping)
               THEN [error |-> "NotInStandard", result |-> result,
                     mapping |-> mapping]
               ELSE [error |-> NoError, result |-> result,
                     mapping |-> DictSet(mapping,
                         [Lookup(mapping, key) EXCEPT
                              !.omain = main_category,
                              !.osub = sub_category])]

\* MaterialClassifier.validate_classification_result: the result dict after the
\* call, the error it raised (NoError when it returned True) and the mapping
\* as the call leaves it.
validate_classification_result(mapping, result) ==
    LET main_category == Get(result, "main_category")
        sub_category == Get(result, "sub_category")
    IN IF Falsy(main_category) \/ Falsy(sub_category)
       THEN [error |-> "Incomplete", result |-> result,
             mapping |-> mapping]
       ELSE LET key == <<NormalizeCategory(main_category),
                         NormalizeCategory(sub_category)>>
            IN IF key \notin Keys(mapping)
               THEN [error |-> "NotInStandard", result |-> result,
             mapping |-> mapping]
               ELSE [error |-> NoError,
                     result |-> [result EXCEPT
                         !["main_category"] = Lookup(mapping, key).omain,
                         !["sub_category"] = Lookup(mapping, key).osub],
                     mapping |-> mapping]

---------------------------------------------------------------------------
(* Keyword / brand matcher *)

\* Concatenation of a sequence of sequences
RECURSIVE Flatten(_)
Flatten(ss) == IF ss = <<>> THEN <<>> ELSE Head(ss) \o Flatten(Tail(ss))

\* One (orig_main, orig_sub, common_brands) per keyword of the entry found in
\* the normalized name: the inner loop of match_keywords.
EntryMatches(e, normalized_name) ==
    LET keyword_list == SplitList(e.keywords)
        hits == SelectSeq(keyword_list,
                    LAMBDA kw : /\ NormalizeText(kw) # <<>>
                                /\ Contains(NormalizeText(kw), normalized_name))
    IN [i \in 1..Len(hits) |-> <<e.omain, e.osub, e.common_brands>>]

\* KeywordMatcher.match_keywords
match_keywords(mapping, material_name) ==
    IF Falsy(material_name) \/ NormalizeText(material_name) = <<>> THEN <<>>
    ELSE Flatten([i \in 1..Len(mapping) |->
                     EntryMatches(mapping[i], NormalizeText(material_name))])

\* Variant: every match is appended, checked_categories is not consulted
AddAll(all_matches, matches) == all_matches \o matches

\* The loop "if (match[0], match[1]) not in checked_categories: append"
RECURSIVE AddUnchecked(_, _)
AddUnchecked(all_matches, matches) ==
    IF matches = <<>> THEN all_matches
    ELSE LET m == Head(matches)
             seen == \E j \in 1..Len(all_matches) :
                        /\ all_matches[j][1] = m[1]
                        /\ all_matches[j][2] = m[2]
         IN AddUnchecked(IF seen THEN all_matches ELSE Append(all_matches, m),
                         Tail(matches))

\* The field consulted at each of the four steps of match_by_multiple_fields.
\* A record carries name ("物料名称"), model ("图号/型号" or "型号"),
\* brand ("分类/品牌" or "品牌") and raw ("材料"); an absent key reads as "".
FieldAt(material, k) ==
    CASE k = 1 -> material.name
      [] k = 2 -> material.model
      [] k = 3 -> material.brand
      [] k = 4 -> material.raw

\* Variant: every field is consulted and its matches are merged
FieldStepMerging(mapping, material, all_matches, k) ==
    AddUnchecked(all_matches, match_keywords(mapping, FieldAt(material, k)))

\* One step of match_by_multiple_fields: a later field is consulted only while
\* all_matches is empty.
FieldStep(mapping, material, all_matches, k) ==
    IF k > 1 /\ all_matches # <<>> THEN all_matches
    ELSE AddUnchecked(all_matches,
                      match_keywords(mapping, FieldAt(material, k)))

\* KeywordMatcher.match_by_multiple_fields
match_by_multiple_fields(mapping, material) ==
    LET a1 == FieldStep(mapping, material, <<>>, 1)
        a2 == FieldStep(mapping, material, a1, 2)
        a3 == FieldStep(mapping, material, a2, 3)
    IN FieldStep(mapping, material, a3, 4)

\* Whether one of the listed brands and the record's brand contain each other
BrandHit(common_brands, normalized_material_brand) ==
    \E i \in 1..Len(SplitList(common_brands)) :
        LET normalized_brand == NormalizeText(SplitList(common_brands)[i])
        IN /\ normalized_brand # <<>>
           /\ \/ Contains(normalized_brand, normalized_material_brand)
              \/ Contains(normalized_material_brand, normalized_brand)

\* Variant: the brand is not consulted
match_first_keyword_candidate(mapping, material) ==
    LET keyword_matches == match_by_multiple_fields(mapping, material)
    IN IF keyword_matches = <<>> THEN None
       ELSE <<keyword_matches[1][1], keyword_matches[1][2]>>

\* KeywordMatcher.match_by_keywords_and_brand: a pair <<main, sub>> or None
match_by_keywords_and_brand(mapping, material) ==
    LET keyword_matches == match_by_multiple_fields(mapping, material)
        first == <<keyword_matches[1][1], keyword_matches[1][2]>>
        normalized_material_brand == NormalizeText(material.brand)
        brand_matches ==
            SelectSeq(keyword_matches,
                      LAMBDA m : /\ m[3] # <<>>
                                 /\ BrandHit(m[3], normalized_material_brand))
    IN IF keyword_matches = <<>> THEN None
       ELSE IF Len(keyword_matches) = 1 THEN first
       ELSE IF normalized_material_brand = <<>> THEN first
       ELSE IF brand_matches # <<>>
            THEN <<brand_matches[1][1], brand_matches[1][2]>>
            ELSE first

---------------------------------------------------------------------------
(* Response extractor *)

\* The text of a response is a sequence of tokens: the braces and brackets, the
\* markdown fence (three backticks), the language tag json, white space, prose, a member
\* "k": "v" of an object (pair) and the start "k": of a member whose value is
\* itself an object or an array (key). No token but { } [ ] holds a brace or a
\* bracket.
Tok(t) == [t |-> t]

Pair(k, v) == [t |-> "pair", k |-> k, v |-> v]

Key(k) == [t |-> "key", k |-> k]

\* obj[k] = v
SetField(obj, k, v) ==
    [f \in DOMAIN obj \cup {k} |-> IF f = k THEN v ELSE obj[f]]

\* str.strip() on a response text
StripWs(toks) ==
    LET inner == {i \in 1..Len(toks) : toks[i].t # "ws"}
    IN IF inner = {} THEN <<>>
       ELSE SubSeq(toks, CHOOSE i \in inner : \A j \in inner : i <= j,
                         CHOOSE i \in inner : \A j \in inner : i >= j)

JsonFail == [ok |-> FALSE]

\* The JSON grammar on tokens: a value is an object { member* } or an array
\* [ value* ]; a parse gives the value, tagged dict or list, and the rest.
RECURSIVE ParseValue(_), ParseMembers(_, _), ParseItems(_, _)
ParseValue(toks) ==
    IF toks = <<>> THEN JsonFail
    ELSE IF Head(toks).t = "{" THEN ParseMembers(Tail(toks), <<>>)
    ELSE IF Head(toks).t = "[" THEN ParseItems(Tail(toks), <<>>)
    ELSE JsonFail

ParseMembers(toks, acc) ==
    IF toks = <<>> THEN JsonFail
    ELSE LET h == Head(toks)
         IN CASE h.t = "}" ->
                   [ok |-> TRUE, val |-> [kind |-> "dict", val |-> acc],
                    rest |-> Tail(toks)]
              [] h.t = "pair" -> ParseMembers(Tail(toks), SetField(acc, h.k, h.v))
              [] h.t = "key" ->
                   LET v == ParseValue(Tail(toks))
                   IN IF v.ok THEN ParseMembers(v.rest, SetField(acc, h.k, v.val))
                      ELSE JsonFail
              [] OTHER -> JsonFail

ParseItems(toks, acc) ==
    IF toks = <<>> THEN JsonFail
    ELSE IF Head(toks).t = "]"
         THEN [ok |-> TRUE, val |-> [kind |-> "list", val |-> acc],
               rest |-> Tail(toks)]
         ELSE LET v == ParseValue(toks)
              IN IF v.ok THEN ParseItems(v.rest, Append(acc, v.val))
                 ELSE JsonFail

\* json.loads(text): the whole text must be one value, white space aside
JsonLoads(toks) ==
    LET r == ParseValue(SelectSeq(toks, LAMBDA x : x.t # "ws"))
    IN IF r.ok /\ r.rest = <<>> THEN [ok |-> TRUE, val |-> r.val] ELSE JsonFail

\* re.findall(open .*? close, text, re.DOTALL): from the leftmost opening token
\* to the first closing token after it, then on from there.
RECURSIVE FindAll(_, _, _)
FindAll(toks, open, close) ==
    LET starts == {i \in 1..Len(toks) : toks[i].t = open}
    IN IF starts = {} THEN <<>>
       ELSE LET i == CHOOSE x \in starts : \A y \in starts : x <= y
                ends == {j \in (i + 1)..Len(toks) : toks[j].t = close}
            IN IF ends = {} THEN <<>>
               ELSE LET j == CHOOSE x \in ends : \A y \in ends : x <= y
                    IN <<SubSeq(toks, i, j)>>
                        \o FindAll(SubSeq(toks, j + 1, Len(toks)), open, close)

\* The clean-up of the except json.JSONDecodeError branch: strip, and for a
\* text that starts and ends with the fence, drop both fences and a leading
\* language tag.
CleanContent(content) ==
    LET cleaned == StripWs(content)
        fenced == /\ cleaned # <<>>
                  /\ cleaned[1].t = "fence"
                  /\ cleaned[Len(cleaned)].t = "fence"
        inner == StripWs(SubSeq(cleaned, 2, Len(cleaned) - 1))
    IN IF ~fenced THEN cleaned
       ELSE IF inner # <<>> /\ inner[1].t = "json" THEN StripWs(Tail(inner))
       ELSE inner

\* The part handed to the second json.loads: the last object match, else the
\* last array match, else the cleaned text.
JsonPart(cleaned_content) ==
    LET objects == FindAll(cleaned_content, "{", "}")
        arrays == FindAll(cleaned_content, "[", "]")
    IN IF objects # <<>> THEN objects[Len(objects)]
       ELSE IF arrays # <<>> THEN arrays[Len(arrays)]
       ELSE cleaned_content

\* Variant: the text is scanned for an object without trying it whole first
ExtractScanningFirst(content) == JsonLoads(JsonPart(CleanContent(content)))

\* The parse of a response text in _call_deepseek_api: the text as a whole,
\* and when that fails the part found in the cleaned text.
Extract(content) ==
    IF JsonLoads(content).ok THEN JsonLoads(content)
    ELSE JsonLoads(JsonPart(CleanContent(content)))

---------------------------------------------------------------------------
(* Inputs *)

Material(n, m, b, r) == [name |-> n, model |-> m, brand |-> b, raw |-> r]

\* Records handed to classify_material: keyword hits on the name, on a later
\* field only, ambiguous hits settled by the brand, and records no keyword fits.
Materials ==
    { Material(<<"M", " ", "v">>, <<"U">>, <<>>, <<>>),
      Material(<<"M", " ", "v">>, <<>>, <<"D">>, <<>>),
      Material(<<"z">>, <<"U">>, <<>>, <<"m">>),
      Material(<<"z">>, <<>>, <<"D">>, <<>>),
      Material(<<>>, <<"Z">>, <<>>, <<>>),
      Material(<<>>, <<>>, <<>>, <<>>) }

\* Rows a rules table is made of: a full row, a row under a merged
\* main-category cell, a row without categories, a row without sub-category.
RowPool ==
    { [main |-> <<"P", " ", "L">>, sub |-> <<"I", "o">>,
       keywords |-> <<"m">>, explanation |-> NaN, brands |-> NaN],
      [main |-> NaN, sub |-> <<"U", "p">>,
       keywords |-> NaN, explanation |-> NaN, brands |-> NaN],
      [main |-> NaN, sub |-> NaN,
       keywords |-> <<"m">>, explanation |-> NaN, brands |-> NaN],
      [main |-> <<"Q">>, sub |-> NaN,
       keywords |-> NaN, explanation |-> NaN, brands |-> NaN] }

\* Lines a rules text is made of
LinePool ==
    { Line("start"), Line("example"), Line("other"),
      RuleLine(<< <<"P", " ", "L">>, <<" ", "I", "o">> >>),
      RuleLine(<< <<"Q">> >>),
      RuleLine(<< <<"Q">>, <<" ">> >>) }

\* Records of a classify_batch list
BatchPool ==
    { Material(<<"M", " ", "v">>, <<>>, <<"D">>, <<>>),
      Material(<<"z">>, <<>>, <<"D">>, <<>>) }

RECURSIVE SeqsUpTo(_, _)
SeqsUpTo(S, n) ==
    IF n = 0 THEN {<<>>}
    ELSE LET shorter == SeqsUpTo(S, n - 1)
         IN shorter \cup {Append(q, x) : q \in shorter, x \in S}

\* Taxonomy sources: rules tables and rules texts
Sources ==
    {[kind |-> "table", rows |-> r] : r \in SeqsUpTo(RowPool, MaxSource)}
    \cup {[kind |-> "prompt", lines |-> l] : l \in SeqsUpTo(LinePool, MaxSource)}

\* JSON objects the model may answer with
LlmObjects ==
    { [main_category |-> <<"P", " ", "L">>, sub_category |-> <<"I", "o">>],
      [main_category |-> <<"p", "l", "\t">>, sub_category |-> <<" ", "U", "P">>],
      [main_category |-> <<"Q">>, sub_category |-> <<"i", "O">>,
       reason |-> <<"r">>, classification_source |-> "model"],
      [main_category |-> <<"P", " ", "L">>, sub_category |-> <<"Z">>],
      [main_category |-> <<"P", " ", "L">>, sub_category |-> <<>>],
      [main_category |-> <<>>, sub_category |-> <<"I", "o">>],
      [main_category |-> <<"P", " ", "L">>],
      [sub_category |-> <<"I", "o">>] }

\* json.dumps(o): the members of o between braces
RECURSIVE DumpMembers(_, _)
DumpMembers(o, keys) ==
    IF keys = {} THEN <<>>
    ELSE LET k == CHOOSE x \in keys : TRUE
         IN <<Pair(k, o[k])>> \o DumpMembers(o, keys \ {k})

Dump(o) == <<Tok("{")>> \o DumpMembers(o, DOMAIN o) \o <<Tok("}")>>

Prose == <<Tok("txt")>>

Ws == <<Tok("ws")>>

\* A complete classification object with a nested object as its last member
NestedLast ==
    << Tok("{"), Pair("main_category", <<"P", " ", "L">>),
       Pair("sub_category", <<"I", "o">>),
       Key("detail"), Tok("{"), Pair("k", <<"v">>), Tok("}"), Tok("}") >>

\* A complete classification object with a nested object as its first member
NestedFirst ==
    << Tok("{"), Key("detail"), Tok("{"), Pair("k", <<"v">>), Tok("}"),
       Pair("main_category", <<"Q">>), Pair("sub_category", <<"i", "O">>),
       Tok("}") >>

\* Texts that are one JSON object
ObjectTexts == {Dump(o) : o \in LlmObjects} \cup {NestedLast, NestedFirst}

\* The text between triple backticks
Fenced(j) == <<Tok("fence")>> \o Ws \o j \o Ws \o <<Tok("fence")>>

\* The text between triple backticks, the opening fence tagged json
FencedJson(j) ==
    <<Tok("fence"), Tok("json")>> \o Ws \o j \o Ws \o <<Tok("fence")>>

\* A one-element JSON array
ArrayOf(j) == <<Tok("[")>> \o j \o <<Tok("]")>>

\* Two objects with commentary between them
TwoObjects(a, b) == a \o Ws \o Prose \o Ws \o b

\* Response texts: objects bare, after commentary, fenced, in an array, two in
\* one text; and texts without an object.
Texts ==
    ObjectTexts
    \cup {Prose \o Ws \o j : j \in ObjectTexts}
    \cup {Fenced(j) : j \in ObjectTexts}
    \cup {FencedJson(j) : j \in ObjectTexts}
    \cup {ArrayOf(j) : j \in ObjectTexts}
    \cup {TwoObjects(a, b) : a \in ObjectTexts, b \in ObjectTexts}
    \cup { <<>>, Ws, Prose, <<Tok("fence")>>, <<Tok("["), Tok("]")>>,
           Prose \o <<Tok("["), Tok("]")>>, <<Tok("{")>> \o Prose }

\* What one invocation of client.chat.completions.create can bring: an
\* exception of the client, no content, or a text.
RemoteResponses ==
    { [kind |-> "raise"], [kind |-> "empty"] }
    \cup {[kind |-> "content", text |-> t] : t \in Texts}

---------------------------------------------------------------------------
(* Remote call *)

\* Variant: the try body validates the object it has parsed, so that an
\* object validation rejects is a failed attempt
AttemptOutcomeValidating(resp) ==
    CASE resp.kind = "raise" -> [error |-> "ApiError"]
      [] resp.kind = "empty" -> [error |-> "EmptyContent"]
      [] resp.kind = "content" ->
            LET parsed_result == Extract(resp.text)
            IN IF resp.text = <<>> THEN [error |-> "EmptyContent"]
               ELSE IF ~parsed_result.ok THEN [error |-> "JSONDecodeError"]
               ELSE IF parsed_result.val.kind # "dict"
                    THEN [error |-> "NotObject"]
               ELSE IF \/ "main_category" \notin DOMAIN parsed_result.val.val
                       \/ "sub_category" \notin DOMAIN parsed_result.val.val
                    THEN [error |-> "MissingField"]
               ELSE LET v == validate_classification_result(
                                 classification_mapping, parsed_result.val.val)
                    IN IF v.error # NoError THEN [error |-> v.error]
                       ELSE [error |-> NoError,
                             obj |-> SetField(parsed_result.val.val,
                                              "classification_source",
                                              "deepseek_api")]

\* The try body of one pass of the retry loop of _call_deepseek_api: the
\* exception it raises, or the dict it returns.
AttemptOutcome(resp) ==
    CASE resp.kind = "raise" -> [error |-> "ApiError"]
      [] resp.kind = "empty" -> [error |-> "EmptyContent"]
      [] resp.kind = "content" ->
            LET parsed_result == Extract(resp.text)
            IN IF resp.text = <<>> THEN [error |-> "EmptyContent"]
               ELSE IF ~parsed_result.ok THEN [error |-> "JSONDecodeError"]
               ELSE IF parsed_result.val.kind # "dict"
                    THEN [error |-> "NotObject"]
               ELSE IF \/ "main_category" \notin DOMAIN parsed_result.val.val
                       \/ "sub_category" \notin DOMAIN parsed_result.val.val
                    THEN [error |-> "MissingField"]
               ELSE [error |-> NoError,
                     obj |-> SetField(parsed_result.val.val,
                                      "classification_source", "deepseek_api")]

\* Variant: the counter is left as it is on success
KeepFailures(n) == n

\* Variant: the counter stays where it is once it has reached the threshold
ResetBelowThreshold(n) == IF n >= MAX_API_FAILURES THEN n ELSE 0

\* self.continuous_api_failures = 0
ResetFailures(n) == 0

\* self.continuous_api_failures += 1
CountFailure(n) == n + 1

\* if self.continuous_api_failures >= self.MAX_API_FAILURES: raise
CeilingReached(n) == n >= MAX_API_FAILURES

\* Variant: one pass more than the budget
MayRetryOnceMore(a) == a < MAX_RETRIES

\* if attempt < Config.MAX_RETRIES - 1: sleep and go on, else: raise
MayRetry(a) == a < MAX_RETRIES - 1

\* Variant: a backoff that grows linearly
BackoffLinear(a) == 2 * a

\* time.sleep(2**attempt)
Backoff(a) == 2 ^ a

---------------------------------------------------------------------------
(* classify_material and classify_batch *)

Returned(r) == [status |-> "returned", result |-> r]

Raised(e) == [status |-> "raised", error |-> e]

\* Variant: the local match is ignored
NeverLocal(local_match) == FALSE

\* if local_match:
UseLocal(local_match) == local_match # None

\* The entry classify_batch appends for a record
BatchRecord(material, outcome) ==
    IF outcome.status = "returned"
    THEN [original_data |-> material, classification |-> outcome.result,
          status |-> "success"]
    ELSE [original_data |-> material, error |-> outcome.error,
          status |-> "failed"]

\* Variant: a failed record leaves no entry
BatchAppendSuccessOnly(list, material, outcome) ==
    IF outcome.status = "returned"
    THEN Append(list, [original_data |-> material,
                       classification |-> outcome.result,
                       status |-> "success"])
    ELSE list

\* results.append(...) of the try / except of classify_batch
BatchAppend(list, material, outcome) ==
    Append(list, BatchRecord(material, outcome))

\* Variant: the sleep is taken after the last record too
RateLimitedAfterEach(i, n) == i < n

\* if i < len(materials_list) - 1: time.sleep(Config.API_RATE_LIMIT)
RateLimited(i, n) == i < n - 1

\* The end of a classify_material call. Inside classify_batch the rest of the
\* loop body follows: the outcome is appended, the rate-limit sleep is taken
\* and the loop moves on or returns.
Complete(material, outcome) ==
    /\ pc' = "idle"
    /\ ret' = outcome
    /\ IF bpc = "loop"
       THEN /\ results' = BatchAppend(results, material, outcome)
            /\ rate_sleeps' = IF RateLimited(batch_i, Len(materials_list))
                               THEN rate_sleeps + 1 ELSE rate_sleeps
            /\ batch_i' = batch_i + 1
            /\ bpc' = IF batch_i + 1 < Len(materials_list)
                       THEN "loop" ELSE "idle"
            /\ UNCHANGED materials_list
       ELSE UNCHANGED batchVars

\* The resolver state a call ends in: FAILED when it raises, DONE when it
\* returns
EndPhase(outcome) == IF outcome.status = "raised" THEN "FAILED" ELSE "DONE"

\* Variant: the except clause logs the validation error and does not raise it
\* again, the call returns None
ValidatedSwallowingErrors(result) ==
    LET v == validate_classification_result(classification_mapping, result)
    IN IF v.error = NoError THEN Returned(v.result) ELSE [status |-> "none"]

\* What classify_material returns or raises after validate_classification_result
Validated(result) ==
    LET v == validate_classification_result(classification_mapping, result)
    IN IF v.error = NoError THEN Returned(v.result) ELSE Raised(v.error)

\* The mapping after validate_classification_result has run on the result
MappingAfterValidation(result) ==
    validate_classification_result(classification_mapping, result).mapping

\* classify_material up to its first remote invocation: the local matcher,
\* and, on a match, validation and return.
Enter(material) ==
    LET local_match ==
            match_by_keywords_and_brand(classification_mapping, material)
    IN /\ material_data' = material
       /\ api_calls' = 0
       /\ sleep_log' = <<>>
       /\ last_attempt' = [error |-> "NoAttempt"]
       /\ attempt' = 0
       /\ UNCHANGED <<continuous_api_failures, failed_since_success,
                      ceiling_hit, pureVars, loadVars, threadVars, poolVars>>
       /\ IF UseLocal(local_match)
          THEN LET result == [main_category |-> local_match[1],
                              sub_category |-> local_match[2],
                              classification_source |-> "keyword_matcher"]
               IN /\ Complete(material, Validated(result))
                  /\ classification_mapping' = MappingAfterValidation(result)
                  /\ trail' = <<"START", "LOCAL_MATCH",
                                EndPhase(Validated(result))>>
          ELSE /\ pc' = "remote"
               /\ ret' = [status |-> "running"]
               /\ trail' = <<"START", "LOCAL_MATCH", "REMOTE_CALL">>
               /\ UNCHANGED <<classification_mapping, batchVars>>

\* classifier.classify_material(material) called on its own, on a classifier
\* whose construction has loaded the mapping
ClassifyMaterial ==
    /\ loaded
    /\ pc = "idle" /\ bpc = "idle"
    /\ \E material \in Materials : Enter(material)

\* One pass of the retry loop whose try body returns
AttemptSucceeds(resp) ==
    LET out == AttemptOutcome(resp)
    IN /\ pc = "remote"
       /\ out.error = NoError
       /\ api_calls' = api_calls + 1
       /\ last_attempt' = out
       /\ continuous_api_failures' = ResetFailures(continuous_api_failures)
       /\ failed_since_success' = 0
       /\ Complete(material_data, Validated(out.obj))
       /\ classification_mapping' = MappingAfterValidation(out.obj)
       /\ trail' = trail \o <<"VALIDATE", EndPhase(Validated(out.obj))>>
       /\ UNCHANGED <<material_data, attempt, sleep_log, ceiling_hit,
                      pureVars, loadVars, threadVars, poolVars>>

\* One pass of the retry loop whose try body raises: the except clause
AttemptFails(resp) ==
    LET out == AttemptOutcome(resp)
    IN /\ pc = "remote"
       /\ out.error # NoError
       /\ continuous_api_failures < MaxFailures
       /\ api_calls' = api_calls + 1
       /\ last_attempt' = out
       /\ continuous_api_failures' = CountFailure(continuous_api_failures)
       /\ failed_since_success' = failed_since_success + 1
       /\ ceiling_hit' = (ceiling_hit \/ CeilingReached(continuous_api_failures'))
       /\ UNCHANGED <<classification_mapping, material_data, pureVars, loadVars, threadVars, poolVars>>
       /\ IF CeilingReached(continuous_api_failures')
          THEN /\ Complete(material_data, Raised(out.error))
               /\ trail' = Append(trail, EndPhase(Raised(out.error)))
               /\ UNCHANGED <<attempt, sleep_log>>
          ELSE IF MayRetry(attempt)
          THEN /\ sleep_log' = Append(sleep_log, Backoff(attempt))
               /\ attempt' = attempt + 1
               /\ UNCHANGED <<pc, ret, trail, batchVars>>
          ELSE /\ Complete(material_data, Raised(out.error))
               /\ trail' = Append(trail, EndPhase(Raised(out.error)))
               /\ UNCHANGED <<attempt, sleep_log>>

RemoteAttempt ==
    \E resp \in RemoteResponses : AttemptSucceeds(resp) \/ AttemptFails(resp)

\* classifier.classify_batch(list): the call and, for an empty list, its return
BatchStart ==
    /\ pc = "idle" /\ bpc = "idle"
    /\ \E list \in SeqsUpTo(BatchPool, MaxBatch) :
          /\ materials_list' = list
          /\ bpc' = IF list = <<>> THEN "idle" ELSE "loop"
    /\ results' = <<>>
    /\ batch_i' = 0
    /\ rate_sleeps' = 0
    /\ UNCHANGED <<classifierVars, pureVars, loadVars, threadVars, poolVars>>

\* The classify_material call of the loop body of classify_batch
BatchClassify ==
    /\ bpc = "loop" /\ pc = "idle"
    /\ Enter(materials_list[batch_i + 1])

---------------------------------------------------------------------------
(* Direct calls of the validator and of the matcher *)

CandMains ==
    { <<"P", " ", "L">>, <<"p", "l">>, <<" ", "p", "\t", "L", " ">>,
      <<"P", "\n", "L">>, <<"Q">>, <<"q", " ">>, <<>>, <<"x">> }

CandSubs ==
    { <<"I", "o">>, <<"i", " ", "o">>, <<"I", "O", "\t">>, <<"U", "p">>,
      <<"u", " ", "P">>, <<"Z">>, <<>>, <<"i", "o", "\n">> }

Candidates ==
    {[main_category |-> a, sub_category |-> b] : a \in CandMains, b \in CandSubs}

Probes ==
    { Material(n, m, b, r) :
        n \in {<<>>, <<"M", " ", "v">>, <<"z">>, <<"u">>},
        m \in {<<>>, <<"U">>, <<"m">>},
        b \in {<<>>, <<"D">>, <<"v", " ", "S">>},
        r \in {<<>>, <<"m">>} }

\* classifier.validate_classification_result(cand)
ValidateCall ==
    /\ vret = [error |-> "NotCalled"]
    /\ vret' = validate_classification_result(classification_mapping, cand)
    /\ classification_mapping' = vret'.mapping
    /\ UNCHANGED <<callVars, batchVars, loadVars, threadVars, poolVars, cand, probe,
                   mret, raw, xret, norm>>

\* keyword_matcher.match_by_multiple_fields(probe) and
\* keyword_matcher.match_by_keywords_and_brand(probe)
MatchCall ==
    /\ mret = [called |-> FALSE]
    /\ mret' = [called |-> TRUE,
                fields |-> match_by_multiple_fields(classification_mapping, probe),
                pick |-> match_by_keywords_and_brand(classification_mapping, probe)]
    /\ UNCHANGED <<classifierVars, batchVars, loadVars, threadVars, poolVars, cand, probe,
                   vret, raw, xret, norm>>

\* Texts over letters of both cases, blank, tab and line break
NormInputs == SeqsUpTo({"P", "l", " ", "\t", "\n"}, MaxLen)

\* keyword_matcher._normalize_text applied to the text, and again to its result
NormalizeTextCall ==
    /\ norm.fn \in {"none", "text"}
    /\ norm.count < 2
    /\ norm' = [fn |-> "text", count |-> norm.count + 1,
                arg |-> norm.value, value |-> NormalizeText(norm.value)]
    /\ UNCHANGED <<classifierVars, batchVars, loadVars, threadVars, poolVars, cand, vret,
                   probe, mret, raw, xret>>

\* The normalization of category names of the loader and the validator
\* applied to the text, and again to its result
NormalizeCategoryCall ==
    /\ norm.fn \in {"none", "category"}
    /\ norm.count < 2
    /\ norm' = [fn |-> "category", count |-> norm.count + 1,
                arg |-> norm.value, value |-> NormalizeCategory(norm.value)]
    /\ UNCHANGED <<classifierVars, batchVars, loadVars, threadVars, poolVars, cand, vret,
                   probe, mret, raw, xret>>

\* The remote path of classify_material for the one response text raw: the
\* parse, the checks of the retry loop's try body and, for an object that
\* passes them, validation.
ExtractCall ==
    /\ ~xret.called
    /\ LET out == AttemptOutcome([kind |-> "content", text |-> raw])
       IN /\ xret' = [called |-> TRUE,
                   parsed |-> Extract(raw),
                   out |-> out,
                   final |-> IF out.error = NoError THEN Validated(out.obj)
                             ELSE Raised(out.error)]
          /\ classification_mapping'
                = IF out.error = NoError THEN MappingAfterValidation(out.obj)
                  ELSE classification_mapping
    /\ UNCHANGED <<callVars, batchVars, loadVars, threadVars, poolVars, cand, vret,
                   probe, mret, raw, norm>>

---------------------------------------------------------------------------
(* Worker threads *)

\* The threads of the pool of process_batch; each runs classify_material on
\* the one shared classifier.
Workers == 1..MaxWorkers

ThreadIdle == [pc |-> "idle", attempt |-> 0, read |-> 0]

\* The responses with which the try body of a pass returns, and those with
\* which it raises
SucceedingResponses ==
    {resp \in RemoteResponses : AttemptOutcome(resp).error = NoError}

FailingResponses ==
    {resp \in RemoteResponses : AttemptOutcome(resp).error # NoError}

\* A thread takes a record and enters classify_material: it returns on a local
\* match and enters the retry loop otherwise.
ThreadClassify(w) ==
    /\ threads[w].pc = "idle"
    /\ \E material \in Materials :
          threads' = [threads EXCEPT ![w] =
              IF UseLocal(match_by_keywords_and_brand(classification_mapping,
                                                      material))
              THEN ThreadIdle
              ELSE [pc |-> "remote", attempt |-> 0, read |-> 0]]
    /\ UNCHANGED <<classifierVars, batchVars, pureVars, loadVars, poolVars>>

\* A pass of the retry loop whose try body returns: the counter is set to 0
\* and the thread leaves the loop.
ThreadAttemptSucceeds(w) ==
    /\ threads[w].pc = "remote"
    /\ SucceedingResponses # {}
    /\ continuous_api_failures' = ResetFailures(continuous_api_failures)
    /\ failed_since_success' = 0
    /\ threads' = [threads EXCEPT ![w] = ThreadIdle]
    /\ UNCHANGED <<classification_mapping, pc, material_data, attempt, ret,
                   api_calls, sleep_log, last_attempt, ceiling_hit, trail,
                   batchVars, pureVars, loadVars, poolVars>>

\* A pass whose try body raises, up to the read of the counter that
\* "self.continuous_api_failures += 1" starts with: nothing holds the other
\* threads off between this read and the write that follows.
ThreadAttemptRaises(w) ==
    /\ threads[w].pc = "remote"
    /\ continuous_api_failures < MaxFailures
    /\ failed_since_success < MaxFailures
    /\ FailingResponses # {}
    /\ threads' = [threads EXCEPT ![w].pc = "except",
                                  ![w].read = continuous_api_failures]
    /\ UNCHANGED <<classifierVars, batchVars, pureVars, loadVars, poolVars>>

\* The write of "+= 1" with the value read before, and the rest of the except
\* clause: the ceiling test, then the backoff and the next pass, or the raise.
ThreadCountFailure(w) ==
    /\ threads[w].pc = "except"
    /\ continuous_api_failures' = CountFailure(threads[w].read)
    /\ failed_since_success' = failed_since_success + 1
    /\ ceiling_hit' = (ceiling_hit \/ CeilingReached(continuous_api_failures'))
    /\ threads' = [threads EXCEPT ![w] =
          IF ~CeilingReached(continuous_api_failures') /\ MayRetry(threads[w].attempt)
          THEN [pc |-> "remote", attempt |-> threads[w].attempt + 1, read |-> 0]
          ELSE ThreadIdle]
    /\ UNCHANGED <<classification_mapping, pc, material_data, attempt, ret,
                   api_calls, sleep_log, last_attempt, trail,
                   batchVars, pureVars, loadVars, poolVars>>

---------------------------------------------------------------------------
(* Thread pool of process_batch *)

\* The elements of a list
Elems(seq) == {seq[i] : i \in 1..Len(seq)}

\* No process_batch call has been made
PoolIdle == [pc |-> "idle"]

\* How a record fares: classify_material returns (ok), classify_material
\* raises (raise), or process_material itself raises because the logging of
\* its except clause cannot serialise the record (escape; MaterialManager
\* only, whose clause logs json.dumps(material_data)).
RecordKinds(variant) ==
    IF variant = "manager" THEN {"ok", "raise", "escape"} ELSE {"ok", "raise"}

\* process_batch(materials_list, max_workers) of MaterialManager (manager) or
\* of MaterialProcessor (processor) on entry: nothing submitted, no thread
\* busy, results = []
PoolCall(variant, max_workers, materials) ==
    [pc |-> "submit", variant |-> variant, max_workers |-> max_workers,
     materials_list |-> materials, submitted |-> 0, taken |-> 0,
     running |-> [w \in Workers |-> 0], finished |-> <<>>,
     early |-> {}, yielded |-> {}, results |-> <<>>]

PoolInputs ==
    { PoolCall(v, m, l) :
        v \in {"manager"}, m \in Workers,
        l \in SeqsUpTo(RecordKinds("manager"), MaxTasks) }
    \cup
    { PoolCall(v, m, l) :
        v \in {"processor"}, m \in Workers,
        l \in SeqsUpTo(RecordKinds("processor"), MaxTasks) }

\* The outcome built for record i: by process_material from the return or the
\* exception of classify_material, by the except clause of process_batch from
\* the exception of the future.
Outcome(materials, i) ==
    [original_data |-> i,
     status |-> IF materials[i] = "ok" THEN "success" ELSE "failed"]

\* executor.submit(...) for the next record of the list
PoolSubmit ==
    /\ pool.pc = "submit"
    /\ pool.submitted < Len(pool.materials_list)
    /\ pool' = [pool EXCEPT !.submitted = @ + 1]
    /\ UNCHANGED <<classifierVars, batchVars, pureVars, loadVars, threadVars>>

\* as_completed(future_to_material) is entered: the futures already finished
\* are set aside, to be yielded first and in the order of a set
PoolAsCompleted ==
    /\ pool.pc = "submit"
    /\ pool.submitted = Len(pool.materials_list)
    /\ pool' = [pool EXCEPT !.pc = "collect",
                            !.early = Elems(pool.finished)]
    /\ UNCHANGED <<classifierVars, batchVars, pureVars, loadVars, threadVars>>

\* A free worker thread takes the oldest task of the queue
PoolWorkerTake(w) ==
    /\ pool.pc \in {"submit", "collect"}
    /\ w <= pool.max_workers
    /\ pool.running[w] = 0
    /\ pool.taken < pool.submitted
    /\ pool' = [pool EXCEPT !.running[w] = pool.taken + 1,
                            !.taken = @ + 1]
    /\ UNCHANGED <<classifierVars, batchVars, pureVars, loadVars, threadVars>>

\* The task of a worker thread ends. MaterialManager: thread_process appends
\* the outcome of process_material under the lock, unless process_material
\* raised. MaterialProcessor: the outcome is the result of the future.
PoolWorkerFinish(w) ==
    /\ pool.pc \in {"submit", "collect"}
    /\ pool.running[w] # 0
    /\ LET i == pool.running[w]
       IN pool' = [pool EXCEPT
              !.running[w] = 0,
              !.finished = Append(@, i),
              !.results =
                  IF pool.variant = "manager"
                     /\ pool.materials_list[i] # "escape"
                  THEN Append(@, Outcome(pool.materials_list, i))
                  ELSE @]
    /\ UNCHANGED <<classifierVars, batchVars, pureVars, loadVars, threadVars>>

\* The futures as_completed may yield next: any of those set aside on entry,
\* then the others in the order they finished
NextYield ==
    IF pool.early # {} THEN pool.early
    ELSE LET late == {k \in 1..Len(pool.finished) :
                         pool.finished[k] \notin pool.yielded}
         IN IF late = {} THEN {}
            ELSE {pool.finished[CHOOSE k \in late : \A j \in late : k <= j]}

\* One pass of the loop over as_completed. MaterialProcessor appends the
\* result of the future; MaterialManager appends a failed outcome when the
\* future holds an exception and nothing otherwise.
PoolCollect ==
    /\ pool.pc = "collect"
    /\ \E f \in NextYield :
          pool' = [pool EXCEPT
              !.early = @ \ {f},
              !.yielded = @ \cup {f},
              !.results =
                  IF pool.variant = "processor"
                     \/ pool.materials_list[f] = "escape"
                  THEN Append(@, Outcome(pool.materials_list, f))
                  ELSE @]
    /\ UNCHANGED <<classifierVars, batchVars, pureVars, loadVars, threadVars>>

\* as_completed is exhausted: return results
PoolReturn ==
    /\ pool.pc = "collect"
    /\ pool.yielded = 1..Len(pool.materials_list)
    /\ pool' = [pool EXCEPT !.pc = "returned"]
    /\ UNCHANGED <<classifierVars, batchVars, pureVars, loadVars, threadVars>>

---------------------------------------------------------------------------
(* Construction *)

\* The end of __init__ after the mapping is in place: the API key check and
\* the initial value of the failure counter.
FinishInit(api_key) ==
    IF api_key
    THEN /\ built' = [status |-> "constructed"]
         /\ continuous_api_failures' = 0
    ELSE /\ built' = Raised("NoApiKey")
         /\ UNCHANGED continuous_api_failures

\* Variant: __new__ creates an object on every call
NewObjectAlways(objects) == objects + 1

\* __new__: an object is created only while cls._instance is None; the number
\* of objects created so far, after the call
NewObject(objects) == IF objects = 0 THEN 1 ELSE objects

\* MaterialClassifier(): __new__, then __init__, which loads the rules table
\* unless a mapping is cached. Nothing keeps the call from being made again,
\* between two calls of classify_material or, from another thread, while one
\* is between two attempts.
Construct ==
    /\ process.constructions < MaxConstructions
    /\ source.kind = "table"
    /\ \E api_key \in BOOLEAN :
          LET l == load_classification_standards(source.rows)
          IN IF ~loaded /\ l.error # NoError
             THEN /\ built' = Raised(l.error)
                  /\ process' = [process EXCEPT
                                    !.objects = NewObject(@),
                                    !.constructions = @ + 1]
                  /\ UNCHANGED <<classification_mapping, loaded,
                                 continuous_api_failures>>
             ELSE /\ classification_mapping'
                        = IF loaded THEN classification_mapping ELSE l.mapping
                  /\ loaded' = TRUE
                  /\ process' = [process EXCEPT
                                    !.objects = NewObject(@),
                                    !.loads = IF loaded THEN @ ELSE @ + 1,
                                    !.constructions = @ + 1]
                  /\ FinishInit(api_key)
    /\ UNCHANGED <<pc, material_data, attempt, ret, api_calls, sleep_log,
                   failed_since_success, last_attempt, ceiling_hit, trail,
                   batchVars, pureVars, source, threadVars, poolVars>>

\* MaterialClassifier() of the variant that reads the rules from the prompt
\* template
ConstructFromPrompt ==
    /\ built.status = "none"
    /\ source.kind = "prompt"
    /\ \E api_key \in BOOLEAN :
          LET l == load_classification_standards_from_prompt(source.lines)
          IN IF l.error # NoError
             THEN /\ built' = Raised(l.error)
                  /\ process' = [process EXCEPT !.objects = @ + 1,
                                                !.constructions = @ + 1]
                  /\ UNCHANGED <<classification_mapping, loaded,
                                 continuous_api_failures>>
             ELSE /\ classification_mapping' = l.mapping
                  /\ loaded' = TRUE
                  /\ process' = [process EXCEPT !.objects = @ + 1,
                                                !.loads = @ + 1,
                                                !.constructions = @ + 1]
                  /\ FinishInit(api_key)
    /\ UNCHANGED <<pc, material_data, attempt, ret, api_calls, sleep_log,
                   failed_since_success, last_attempt, ceiling_hit, trail,
                   batchVars, pureVars, source, threadVars, poolVars>>

---------------------------------------------------------------------------
(* Specifications *)

InitClassifier ==
    /\ classification_mapping
          = load_classification_standards(TaxonomyRows).mapping
    /\ source = [kind |-> "table", rows |-> TaxonomyRows]
    /\ loaded = TRUE
    /\ built = [status |-> "constructed"]
    /\ process = [objects |-> 1, loads |-> 1, constructions |-> 1]
    /\ continuous_api_failures = 0
    /\ pc = "idle"
    /\ material_data = Material(<<>>, <<>>, <<>>, <<>>)
    /\ attempt = 0
    /\ ret = [status |-> "none"]
    /\ api_calls = 0
    /\ sleep_log = <<>>
    /\ failed_since_success = 0
    /\ last_attempt = [error |-> "NoAttempt"]
    /\ ceiling_hit = FALSE
    /\ trail = <<>>
    /\ materials_list = <<>>
    /\ bpc = "idle"
    /\ batch_i = 0
    /\ results = <<>>
    /\ rate_sleeps = 0
    /\ vret = [error |-> "NotCalled"]
    /\ mret = [called |-> FALSE]
    /\ xret = [called |-> FALSE]
    /\ threads = [w \in Workers |-> ThreadIdle]

NoNorm == [fn |-> "none", count |-> 0, arg |-> <<>>, value |-> <<>>]

Init ==
    /\ InitClassifier
    /\ pool = PoolIdle
    /\ cand = [main_category |-> <<>>, sub_category |-> <<>>]
    /\ probe = Material(<<>>, <<>>, <<>>, <<>>)
    /\ raw = <<>>
    /\ norm = NoNorm

Next == ClassifyMaterial \/ RemoteAttempt

\* Any sequence of classify_material calls on one classifier
Spec == Init /\ [][Next]_vars

NextRebuild == ClassifyMaterial \/ RemoteAttempt \/ Construct

\* classify_material calls on the classifier, with MaterialClassifier() called
\* again at any point
SpecRebuild == Init /\ [][NextRebuild]_vars

\* The same, where a remote attempt that has been started returns or raises:
\* the HTTP request of each attempt carries a timeout.
SpecLive == Init /\ [][Next]_vars /\ WF_vars(RemoteAttempt)

NextBatch == BatchStart \/ BatchClassify \/ RemoteAttempt

\* Any sequence of classify_batch calls on one classifier
SpecBatch == Init /\ [][NextBatch]_vars

InitPure ==
    /\ InitClassifier
    /\ pool = PoolIdle
    /\ cand \in Candidates
    /\ probe \in Probes
    /\ raw = <<>>
    /\ norm = NoNorm

NextPure == ValidateCall \/ MatchCall

\* Direct calls of the validator and the matcher on every input of the bounded sets
SpecPure == InitPure /\ [][NextPure]_vars

InitExtract ==
    /\ InitClassifier
    /\ pool = PoolIdle
    /\ cand = [main_category |-> <<>>, sub_category |-> <<>>]
    /\ probe = Material(<<>>, <<>>, <<>>, <<>>)
    /\ raw \in Texts
    /\ norm = NoNorm

NextExtract == ExtractCall

\* The remote path on every response text of the bounded set
SpecExtract == InitExtract /\ [][NextExtract]_vars

NextThreads ==
    \E w \in Workers :
        \/ ThreadClassify(w)
        \/ ThreadAttemptSucceeds(w)
        \/ ThreadAttemptRaises(w)
        \/ ThreadCountFailure(w)

\* Worker threads classifying records on the shared classifier
SpecThreads == Init /\ [][NextThreads]_vars

InitNorm ==
    /\ InitClassifier
    /\ pool = PoolIdle
    /\ cand = [main_category |-> <<>>, sub_category |-> <<>>]
    /\ probe = Material(<<>>, <<>>, <<>>, <<>>)
    /\ raw = <<>>
    /\ \E s \in NormInputs :
          norm = [fn |-> "none", count |-> 0, arg |-> s, value |-> s]

NextNorm == NormalizeTextCall \/ NormalizeCategoryCall

\* Each normalization applied twice in a row to every text of the bounded set
SpecNorm == InitNorm /\ [][NextNorm]_vars

\* Before construction: no mapping is loaded
InitLoad ==
    /\ source \in Sources
    /\ pool = PoolIdle
    /\ loaded = FALSE
    /\ built = [status |-> "none"]
    /\ process = [objects |-> 0, loads |-> 0, constructions |-> 0]
    /\ classification_mapping = <<>>
    /\ continuous_api_failures = 0
    /\ pc = "idle"
    /\ material_data = Material(<<>>, <<>>, <<>>, <<>>)
    /\ attempt = 0
    /\ ret = [status |-> "none"]
    /\ api_calls = 0
    /\ sleep_log = <<>>
    /\ failed_since_success = 0
    /\ last_attempt = [error |-> "NoAttempt"]
    /\ ceiling_hit = FALSE
    /\ trail = <<>>
    /\ materials_list = <<>>
    /\ bpc = "idle"
    /\ batch_i = 0
    /\ results = <<>>
    /\ rate_sleeps = 0
    /\ vret = [error |-> "NotCalled"]
    /\ mret = [called |-> FALSE]
    /\ xret = [called |-> FALSE]
    /\ cand = [main_category |-> <<>>, sub_category |-> <<>>]
    /\ probe = Material(<<>>, <<>>, <<>>, <<>>)
    /\ raw = <<>>
    /\ norm = NoNorm
    /\ threads = [w \in Workers |-> ThreadIdle]

NextLoad == Construct \/ ConstructFromPrompt

InitLocal == InitLoad /\ source.kind = "table"

NextLocal == Construct \/ ClassifyMaterial

\* Construction against every rules table of the bounded set, then
\* classify_material calls up to the end of their keyword path
SpecLocal == InitLocal /\ [][NextLocal]_vars

InitPool ==
    /\ InitClassifier
    /\ cand = [main_category |-> <<>>, sub_category |-> <<>>]
    /\ probe = Material(<<>>, <<>>, <<>>, <<>>)
    /\ raw = <<>>
    /\ norm = NoNorm
    /\ pool \in PoolInputs

NextPool ==
    \/ PoolSubmit
    \/ PoolAsCompleted
    \/ \E w \in Workers : PoolWorkerTake(w) \/ PoolWorkerFinish(w)
    \/ PoolCollect
    \/ PoolReturn

\* A process_batch call of either class, for every list, worker count and
\* interleaving of the bounded set
SpecPool == InitPool /\ [][NextPool]_vars

\* Construction of a classifier against every source of the bounded set
SpecLoad == InitLoad /\ [][NextLoad]_vars

---------------------------------------------------------------------------
(* Properties *)

\* The result's pair is a key of the taxonomy and its two fields are the
\* spellings stored under that key.
Canonical(result) ==
    LET key == <<NormalizeCategory(result.main_category),
                 NormalizeCategory(result.sub_category)>>
    IN /\ key \in Keys(classification_mapping)
       /\ result.main_category = Lookup(classification_mapping, key).omain
       /\ result.sub_category = Lookup(classification_mapping, key).osub

\* The local match of the record of the running / last call
LocalMatch ==
    match_by_keywords_and_brand(classification_mapping, material_data)

\* The latest attempt brought a JSON object that is missing a field or fails
\* validation (an empty field, a pair outside the taxonomy).
WrongObject ==
    \/ last_attempt.error = "MissingField"
    \/ /\ last_attempt.error = NoError
       /\ validate_classification_result(classification_mapping,
                                         last_attempt.obj).error # NoError

\* C1: whenever classify_material returns a result, by the keyword path or by
\* the LLM path, the normalized (main_category, sub_category) of the result is
\* a key of the taxonomy mapping and both fields are exactly the original
\* strings stored under that key.
C1_ReturnedResultIsCanonical ==
    ret.status = "returned" =>
        /\ {"main_category", "sub_category"} \subseteq DOMAIN ret.result
        /\ Canonical(ret.result)

\* A call returned an LLM answer whose spelling differed from the stored one.
C1_Witness ==
    /\ ret.status = "returned"
    /\ ret.result.classification_source = "deepseek_api"
    /\ last_attempt.obj.main_category # ret.result.main_category
    /\ last_attempt.obj.sub_category # ret.result.sub_category

\* C2: after 5 consecutive failed remote attempts (counted across calls) the
\* next remote attempt raises at once: the pass that makes it ends the call
\* with an error and without a backoff sleep. (The stricter reading, that no
\* invocation is made at all in that call, fails on the same step.)
C2_NextAttemptAfterFiveFailuresRaises ==
    [][(failed_since_success >= MAX_API_FAILURES /\ api_calls' = api_calls + 1)
          => (pc' = "idle" /\ ret'.status = "raised" /\ sleep_log' = sleep_log)]_vars

\* C3: once the failure counter has reached the threshold 5, every later
\* classify_material call that takes the remote path raises: after that point
\* a call returns only by the keyword path.
C3_PermanentFailureAfterCeiling ==
    (ceiling_hit /\ ret.status = "returned") =>
        ret.result.classification_source = "keyword_matcher"

\* C4: the failure counter equals the number of failed remote attempts since
\* the most recent successful attempt (since construction if there was none).
C4_CounterCountsConsecutiveFailures ==
    continuous_api_failures = failed_since_success

\* The count spans two calls: more failures than one call can make.
C4_Witness ==
    /\ continuous_api_failures = MAX_RETRIES + 1
    /\ failed_since_success = MAX_RETRIES + 1
    /\ api_calls = 1

C6_WrongObjectIsTerminal ==
    WrongObject => (pc = "idle" /\ ret.status = "raised")

\* C7: classify_batch records one outcome per record, in input order, each
\* carrying its record and either a classification (success) or an error
\* (failed); it returns only with as many outcomes as records.
C7_BatchOutcomes ==
    /\ Len(results) = batch_i
    /\ batch_i <= Len(materials_list)
    /\ bpc = "idle" => Len(results) = Len(materials_list)
    /\ \A j \in 1..Len(results) :
          /\ results[j].original_data = materials_list[j]
          /\ \/ /\ results[j].status = "success"
                /\ DOMAIN results[j]
                      = {"original_data", "classification", "status"}
                /\ Canonical(results[j].classification)
             \/ /\ results[j].status = "failed"
                /\ DOMAIN results[j] = {"original_data", "error", "status"}

\* A finished batch whose first record failed and whose second succeeded.
C7_Witness ==
    /\ bpc = "idle"
    /\ Len(materials_list) = 2
    /\ Len(results) = 2
    /\ results[1].status = "failed"
    /\ results[2].status = "success"

\* C8: the local matcher decides first: on a match the call makes no remote
\* invocation and returns with the tag keyword_matcher; the remote path is
\* taken only without a match, and a result it returns carries the LLM tag.
C8_LocalMatchFirst ==
    ret.status # "none" =>
        /\ LocalMatch # None =>
              /\ api_calls = 0
              /\ pc = "idle"
              /\ ret.status = "returned"
              /\ ret.result.classification_source = "keyword_matcher"
        /\ (pc = "remote" \/ api_calls > 0) => LocalMatch = None
        /\ (LocalMatch = None /\ ret.status = "returned") =>
              ret.result.classification_source = "deepseek_api"

\* A call that returned from the keyword path.
C8_Witness ==
    /\ ret.status = "returned"
    /\ ret.result.classification_source = "keyword_matcher"
    /\ api_calls = 0

\* The normalized pair of a candidate
CandKey(c) ==
    <<NormalizeCategory(c.main_category), NormalizeCategory(c.sub_category)>>

\* C9: for a candidate whose normalized pair is a taxonomy key,
\* validate_classification_result succeeds and rewrites both fields to the
\* spelling stored under that key; every candidate with the same normalized
\* pair is rewritten to the same spelling.
C9_ValidatorCanonicalizes ==
    (vret.error # "NotCalled" /\ CandKey(cand) \in Keys(classification_mapping)) =>
        /\ vret.error = NoError
        /\ vret.result.main_category
              = Lookup(classification_mapping, CandKey(cand)).omain
        /\ vret.result.sub_category
              = Lookup(classification_mapping, CandKey(cand)).osub
        /\ \A other \in Candidates :
              CandKey(other) = CandKey(cand) =>
                  LET v == validate_classification_result(
                               classification_mapping, other)
                  IN /\ v.error = NoError
                     /\ v.result.main_category = vret.result.main_category
                     /\ v.result.sub_category = vret.result.sub_category

\* A candidate accepted with both fields respelled.
C9_Witness ==
    /\ vret.error = NoError
    /\ cand.main_category # vret.result.main_category
    /\ cand.sub_category # vret.result.sub_category

\* The entries whose keywords fit the k-th field of the probed record
FieldHits(k) == Elems(match_keywords(classification_mapping, FieldAt(probe, k)))

\* The first field, in the order name, model, brand, raw, with a hit; 0 if none
FirstHitField ==
    IF \E k \in 1..4 : FieldHits(k) # {}
    THEN CHOOSE k \in 1..4 :
             FieldHits(k) # {} /\ \A j \in 1..(k - 1) : FieldHits(j) = {}
    ELSE 0

\* C10: match_by_multiple_fields consults name, model, brand, raw material in
\* that order and returns the matches of the first field that has any, and
\* nothing from a later field.
C10_FirstMatchingFieldOnly ==
    mret.called =>
        IF FirstHitField = 0 THEN mret.fields = <<>>
        ELSE Elems(mret.fields) = FieldHits(FirstHitField)

\* The name fits some entries and the model fits an entry the name does not.
C10_Witness ==
    /\ mret.called
    /\ FieldHits(1) # {}
    /\ FieldHits(2) \ FieldHits(1) # {}
    /\ Elems(mret.fields) = FieldHits(1)

\* The candidates of the keyword pass of the probed record, as pairs
PassPair(i) == <<mret.fields[i][1], mret.fields[i][2]>>

\* Candidate i lists a brand that contains, or is contained in, the text b
BrandAffine(i, b) ==
    \E j \in 1..Len(SplitList(mret.fields[i][3])) :
        LET listed == NormalizeText(SplitList(mret.fields[i][3])[j])
        IN Contains(listed, b) \/ Contains(b, listed)

\* The candidates with a brand match for the record brand b, in pass order
BrandAffineSet(b) == {i \in 1..Len(mret.fields) : BrandAffine(i, b)}

FirstOf(S) == CHOOSE i \in S : \A j \in S : i <= j

\* C11 as stated: None exactly when the keyword pass is empty; the single
\* candidate when there is one; with several, the first candidate one of whose
\* listed brands and the normalized record brand are substrings of each other,
\* and the first candidate of the pass when no candidate has such a brand.
C11_BrandDisambiguation ==
    mret.called =>
        LET b == NormalizeText(probe.brand)
        IN /\ (mret.pick = None) <=> (mret.fields = <<>>)
           /\ Len(mret.fields) = 1 => mret.pick = PassPair(1)
           /\ Len(mret.fields) > 1 =>
                 IF BrandAffineSet(b) # {}
                 THEN mret.pick = PassPair(FirstOf(BrandAffineSet(b)))
                 ELSE mret.pick = PassPair(1)

\* C11 amended: as above, the brand rule applying only to a record whose
\* normalized brand is not empty; with several candidates and an empty record
\* brand the first candidate of the keyword pass is returned.
C11_BrandDisambiguationNonEmptyBrand ==
    mret.called =>
        LET b == NormalizeText(probe.brand)
        IN /\ (mret.pick = None) <=> (mret.fields = <<>>)
           /\ Len(mret.fields) = 1 => mret.pick = PassPair(1)
           /\ Len(mret.fields) > 1 =>
                 IF b # <<>> /\ BrandAffineSet(b) # {}
                 THEN mret.pick = PassPair(FirstOf(BrandAffineSet(b)))
                 ELSE mret.pick = PassPair(1)

\* Several candidates, and the brand picks one that is not the first.
C11_Witness ==
    /\ mret.called
    /\ Len(mret.fields) > 1
    /\ NormalizeText(probe.brand) # <<>>
    /\ mret.pick # PassPair(1)
    /\ mret.pick = PassPair(FirstOf(BrandAffineSet(NormalizeText(probe.brand))))

\* C12: for a text that is not itself JSON and holds several JSON objects,
\* the extractor returns the object that comes last in the text, also when an
\* embedded object holds nested braces.
C12_LastObjectExtracted ==
    xret.called =>
        \A a \in ObjectTexts, b \in ObjectTexts :
            raw = TwoObjects(a, b) => xret.parsed = JsonLoads(b)

\* C13: a JSON object text between triple backticks, with or without the json
\* tag after the opening fence, extracts to the same object as the text alone.
C13_FenceExtractsIdentically ==
    xret.called =>
        \A j \in ObjectTexts :
            raw \in {Fenced(j), FencedJson(j)} => xret.parsed = Extract(j)

\* Texts that are a well-formed JSON array
ArrayTexts == {ArrayOf(j) : j \in ObjectTexts} \cup {<<Tok("["), Tok("]")>>}

\* C14: a response whose text is a well-formed JSON array is parsed but never
\* accepted: the attempt fails with the expected-object error and nothing is
\* returned from it.
C14_ArrayNeverAccepted ==
    (xret.called /\ raw \in ArrayTexts) =>
        /\ xret.parsed.ok
        /\ xret.parsed.val.kind = "list"
        /\ xret.out.error = "NotObject"
        /\ xret.final = Raised("NotObject")

\* A one-element array holding a complete classification object was rejected.
C14_Witness ==
    /\ xret.called
    /\ raw = ArrayOf(Dump([main_category |-> <<"P", " ", "L">>,
                           sub_category |-> <<"I", "o">>]))
    /\ xret.out.error = "NotObject"

\* C15: a parsed object without main_category or sub_category is rejected with
\* the missing-field error, one whose main_category or sub_category is empty
\* with the incomplete-result error, neither with a parse error; no result is
\* returned that lacks a field or has an empty one.
C15_IncompleteObjectRejected ==
    xret.called =>
        /\ \A o \in LlmObjects :
              raw = Dump(o) =>
                  /\ ~({"main_category", "sub_category"} \subseteq DOMAIN o)
                        => xret.final = Raised("MissingField")
                  /\ ( /\ {"main_category", "sub_category"} \subseteq DOMAIN o
                       /\ (o.main_category = <<>> \/ o.sub_category = <<>>) )
                        => xret.final = Raised("Incomplete")
        /\ xret.final.status = "returned" =>
              /\ {"main_category", "sub_category"}
                    \subseteq DOMAIN xret.final.result
              /\ xret.final.result.main_category # <<>>
              /\ xret.final.result.sub_category # <<>>

\* An object with an empty sub_category was rejected as incomplete.
C15_Witness ==
    /\ xret.called
    /\ raw = Dump([main_category |-> <<"P", " ", "L">>, sub_category |-> <<>>])
    /\ xret.final = Raised("Incomplete")

\* The source holds nothing a rule entry can be made of: a table without a
\* row that has a sub-category on or below a row with a main category, a
\* text without a line of the rule pattern with both categories.
YieldsNoEntry ==
    IF source.kind = "table"
    THEN ~ \E i \in 1..Len(source.rows) :
              /\ Cell(source.rows[i].sub) # <<>>
              /\ \E j \in 1..i : Cell(source.rows[j].main) # <<>>
    ELSE ~ \E i \in 1..Len(source.lines) :
              /\ source.lines[i].t = "rule"
              /\ Len(source.lines[i].parts) = 2
              /\ Strip(source.lines[i].parts[1]) # <<>>
              /\ Strip(source.lines[i].parts[2]) # <<>>

\* C16: construction against a source that yields no rule entry raises: it
\* never completes, and no construction completes with an empty taxonomy
\* mapping.
C16_EmptyTaxonomyIsFatal ==
    built.status = "constructed" =>
        /\ ~YieldsNoEntry
        /\ classification_mapping # <<>>

\* C17: with several threads in classify_material on the shared classifier no
\* increment of the failure counter is lost: whenever no thread is in the
\* middle of its update, the counter equals the number of failed attempts
\* counted since the last successful attempt.
C17_NoLostFailureCount ==
    (\A w \in Workers : threads[w].pc # "except") =>
        continuous_api_failures = failed_since_success

\* C18: classify_batch over n records takes the inter-record sleep max(n-1, 0)
\* times: once after each record but the last, whether the record succeeded
\* or failed, and never for an empty or a one-record list.
C18_RateLimitSleeps ==
    /\ bpc = "loop" => rate_sleeps = batch_i
    /\ bpc = "idle" =>
          rate_sleeps = IF Len(materials_list) = 0 THEN 0
                        ELSE Len(materials_list) - 1

\* A finished batch of the longest list whose first record failed: one sleep
\* less than records.
C18_Witness ==
    /\ bpc = "idle"
    /\ Len(materials_list) = MaxBatch
    /\ Len(results) = MaxBatch
    /\ results[1].status = "failed"
    /\ rate_sleeps = MaxBatch - 1

\* C19: normalization is idempotent: a second application, of the matcher's
\* _normalize_text or of the category normalization of the loader and the
\* validator, returns its argument.
C19_NormalizationIdempotent ==
    norm.count = 2 => norm.value = norm.arg

\* A category text with an inner newline, which normalization keeps, after the
\* second application.
C19_Witness ==
    /\ norm.count = 2
    /\ norm.fn = "category"
    /\ norm.value = <<"p", "\n", "l">>
    /\ norm.value = norm.arg

\* C20: after construction the taxonomy mapping is read-only: no step of a
\* match, validate, classify_material or classify_batch call, returning or
\* raising, adds, removes or changes an entry of it.
C20_MappingReadOnly ==
    [][classification_mapping' = classification_mapping]_vars

\* A finished batch whose first record failed and whose second was answered
\* by the LLM in a spelling other than the stored one: validation rewrote the
\* result, and the mapping is the one the loader built.
C20_Witness ==
    /\ bpc = "idle"
    /\ Len(results) = 2
    /\ results[1].status = "failed"
    /\ results[2].status = "success"
    /\ last_attempt.error = NoError
    /\ last_attempt.obj.main_category
          # results[2].classification.main_category
    /\ classification_mapping = load_classification_standards(TaxonomyRows).mapping

\* C21: on the LLM path the returned result has the fields of the extracted
\* object and the source tag; every field other than main_category,
\* sub_category and the tag has the value it was extracted with.
C21_ExtraFieldsPreserved ==
    (xret.called /\ xret.final.status = "returned") =>
        LET extracted == xret.parsed.val.val
            result == xret.final.result
        IN /\ DOMAIN result = DOMAIN extracted \cup {"classification_source"}
           /\ result.classification_source = "deepseek_api"
           /\ \A f \in DOMAIN extracted \ {"main_category", "sub_category",
                                             "classification_source"} :
                 result[f] = extracted[f]

\* The object with a reason and a source tag of its own came back with the
\* stored spelling of its categories, its reason and the tag of the LLM path.
C21_Witness ==
    /\ xret.called
    /\ xret.final.status = "returned"
    /\ xret.parsed.val.val.main_category = <<"Q">>
    /\ "reason" \in DOMAIN xret.parsed.val.val
    /\ xret.parsed.val.val.classification_source = "model"
    /\ xret.final.result.reason = <<"r">>
    /\ xret.final.result.main_category # <<"Q">>

\* The transitions of the resolver's state list
ListedTransitions ==
    { <<"START", "LOCAL_MATCH">>, <<"LOCAL_MATCH", "DONE">>,
      <<"LOCAL_MATCH", "REMOTE_CALL">>, <<"REMOTE_CALL", "VALIDATE">>,
      <<"VALIDATE", "DONE">>, <<"VALIDATE", "FAILED">> }

\* The call has gone from START through transitions of T only
Follows(T) ==
    trail # <<>> =>
        /\ trail[1] = "START"
        /\ \A i \in 1..(Len(trail) - 1) : <<trail[i], trail[i + 1]>> \in T

\* A call that has ended is in DONE with a result returned or in FAILED with
\* an error raised
EndsInDoneOrFailed ==
    (pc = "idle" /\ trail # <<>>) =>
        \/ /\ trail[Len(trail)] = "DONE"
           /\ ret.status = "returned"
           /\ {"main_category", "sub_category"} \subseteq DOMAIN ret.result
        \/ /\ trail[Len(trail)] = "FAILED"
           /\ ret.status = "raised"

\* A call that is in its remote call ends
CallEnds == (pc = "remote") ~> (pc = "idle")

\* C22 as stated: a call follows only the transitions START -> LOCAL_MATCH ->
\* (DONE | REMOTE_CALL) -> VALIDATE -> (DONE | FAILED), ends with a result
\* returned (DONE) or an error raised (FAILED), and does end.
C22_ListedTransitionsOnly ==
    /\ [](Follows(ListedTransitions) /\ EndsInDoneOrFailed)
    /\ CallEnds

\* C22, amended: the same with the transition REMOTE_CALL -> FAILED added: a
\* remote call whose last attempt raises ends the call without validation.
C22_TransitionsWithRemoteFailure ==
    /\ [](Follows(ListedTransitions \cup {<<"REMOTE_CALL", "FAILED">>})
            /\ EndsInDoneOrFailed)
    /\ CallEnds

\* A call that spent its retry budget and raised from the remote call.
C22_Witness ==
    /\ pc = "idle"
    /\ trail = <<"START", "LOCAL_MATCH", "REMOTE_CALL", "FAILED">>
    /\ api_calls = MAX_RETRIES
    /\ ret.status = "raised"

\* C23: within one remote call the backoff after the failed attempt of index
\* a is 2^a, whatever the attempt raised; every failed attempt but the one
\* that ends the call (the last of the budget, or the one that brings the
\* failure counter to the threshold) is followed by one sleep, and the last
\* attempt of a call, failed or not, by none.
C23_BackoffSchedule ==
    /\ \A i \in 1..Len(sleep_log) : sleep_log[i] = 2 ^ (i - 1)
    /\ pc = "remote" => Len(sleep_log) = api_calls
    /\ (pc = "idle" /\ api_calls > 0) => Len(sleep_log) = api_calls - 1

\* A call that failed MAX_RETRIES times below the threshold: it slept 1, then
\* 2, and raised after the third failure without a sleep.
C23_Witness ==
    /\ pc = "idle"
    /\ ret.status = "raised"
    /\ api_calls = MAX_RETRIES
    /\ sleep_log = <<1, 2>>
    /\ ~CeilingReached(continuous_api_failures)

\* A cell that reads as empty: nothing but whitespace, or the text nan
EmptyCell(c) == Strip(c) = <<>> \/ Strip(c) = NaN

\* The rows at or above row i whose main-category cell is not empty
MainRows(rows, i) == {j \in 1..i : ~EmptyCell(rows[j].main)}

\* The row the main category current at row i comes from
MainRowOf(rows, i) ==
    CHOOSE j \in MainRows(rows, i) : \A k \in MainRows(rows, i) : k <= j

\* The rows that contribute an entry
Contributing(rows) ==
    {i \in 1..Len(rows) : MainRows(rows, i) # {} /\ ~EmptyCell(rows[i].sub)}

\* The key of the entry of a contributing row
RowKey(rows, i) ==
    <<NormalizeCategory(Strip(rows[MainRowOf(rows, i)].main)),
      NormalizeCategory(Strip(rows[i].sub))>>

\* C24: the mapping loaded from a table has exactly the keys (normalize(current
\* main), normalize(sub)) of the rows with a non-empty sub-category cell at or
\* below a row with a non-empty main-category cell, the current main being
\* that of the nearest such row; each entry holds these two names as the last
\* row of its key gives them; nan cells count as empty.
C24_MainCategoryCarriedForward ==
    (source.kind = "table" /\ loaded) =>
        LET rows == source.rows
        IN /\ Keys(classification_mapping)
                 = {RowKey(rows, i) : i \in Contributing(rows)}
           /\ \A i \in Contributing(rows) :
                 (\A k \in Contributing(rows) :
                       RowKey(rows, k) = RowKey(rows, i) => k <= i)
                 => LET e == Lookup(classification_mapping, RowKey(rows, i))
                    IN /\ e.omain = Strip(rows[MainRowOf(rows, i)].main)
                       /\ e.osub = Strip(rows[i].sub)

\* A table whose first row has a main category and no sub-category, whose
\* second has a sub-category under a merged main cell and whose third has
\* neither: one entry, keyed by the carried main category.
C24_Witness ==
    /\ source.kind = "table"
    /\ loaded
    /\ Len(source.rows) = 3
    /\ source.rows[1].main = <<"Q">> /\ source.rows[1].sub = NaN
    /\ source.rows[2].main = NaN /\ source.rows[2].sub = <<"U", "p">>
    /\ source.rows[3].main = NaN /\ source.rows[3].sub = NaN
    /\ Keys(classification_mapping) = {<< <<"q">>, <<"u", "p">> >>}

\* The outcomes of a returned process_batch call are one per record, each
\* failed exactly when its record could not be classified
OneOutcomePerRecord ==
    /\ Len(pool.results) = Len(pool.materials_list)
    /\ \A i \in 1..Len(pool.materials_list) :
          \E j \in 1..Len(pool.results) :
              pool.results[j] = Outcome(pool.materials_list, i)

\* C25: process_batch returns exactly one outcome per record, failed for the
\* records whose classification raised and for no other; with max_workers = 1
\* the outcomes are in the order of the list.
C25_PoolOutcomes ==
    pool.pc = "returned" =>
        /\ OneOutcomePerRecord
        /\ pool.max_workers = 1 =>
              \A j \in 1..Len(pool.results) : pool.results[j].original_data = j

\* The place in the mapping of the entry candidate i of the keyword pass names
EntryIndex(i) ==
    CHOOSE k \in 1..Len(classification_mapping) :
        /\ classification_mapping[k].omain = mret.fields[i][1]
        /\ classification_mapping[k].osub = mret.fields[i][2]

\* A keyword of the entry, normalized and not empty, occurs in the normalized
\* field
EntryFits(e, field) ==
    \E j \in 1..Len(Split(e.keywords)) :
        LET kw == NormalizeText(Strip(Split(e.keywords)[j]))
        IN kw # <<>> /\ Contains(kw, NormalizeText(field))

FirstAttemptAboveThreshold ==
    /\ pc = "remote"
    /\ api_calls = 0
    /\ continuous_api_failures >= MAX_API_FAILURES
    /\ api_calls' = 1

\* A call that has taken the remote path and ended has made a remote
\* invocation
RemotePathInvokes ==
    (pc = "idle" /\ \E i \in 1..Len(trail) : trail[i] = "REMOTE_CALL")
        => api_calls >= 1

\* C28 as stated: a call that takes the remote path makes at least one remote
\* invocation, also when the counter is 5 or more on entry; if that
\* invocation succeeds the call returns a result and the counter is 0, if it
\* fails the call raises after that one invocation.
C28_ThresholdTestedAfterAttempt ==
    /\ []RemotePathInvokes
    /\ [][FirstAttemptAboveThreshold =>
             /\ pc' = "idle"
             /\ IF last_attempt'.error = NoError
                THEN /\ ret'.status = "returned"
                     /\ continuous_api_failures' = 0
                ELSE ret'.status = "raised"]_vars

\* C28, amended: the same, where after a successful invocation the call
\* returns a result unless validation rejects the object, and then raises the
\* validation error; the counter is 0 in both cases.
C28_ThresholdTestedAfterAttemptValidated ==
    /\ []RemotePathInvokes
    /\ [][FirstAttemptAboveThreshold =>
             /\ pc' = "idle"
             /\ IF last_attempt'.error = NoError
                THEN /\ continuous_api_failures' = 0
                     /\ \/ ret'.status = "returned"
                        \/ /\ ret'.status = "raised"
                           /\ ret'.error \in {"Incomplete", "NotInStandard"}
                           /\ validate_classification_result(
                                  classification_mapping,
                                  last_attempt'.obj).error = ret'.error
                ELSE ret'.status = "raised"]_vars

\* A call entered with the counter at the threshold whose one attempt failed.
C28_Witness ==
    /\ pc = "idle"
    /\ api_calls = 1
    /\ ret.status = "raised"
    /\ last_attempt.error = "ApiError"
    /\ continuous_api_failures = MAX_API_FAILURES + 1

\* C29: whatever table the mapping was loaded from, a call whose record has a
\* local match ends on the keyword path: it returns the matched pair, raises
\* neither the incomplete-result nor the unknown-category error, and makes no
\* remote invocation.
C29_LocalMatchPassesValidation ==
    (ret.status # "none" /\ LocalMatch # None) =>
        /\ pc = "idle"
        /\ trail = <<"START", "LOCAL_MATCH", "DONE">>
        /\ ret.status = "returned"
        /\ ret.result.main_category = LocalMatch[1]
        /\ ret.result.sub_category = LocalMatch[2]
        /\ api_calls = 0

\* A pair whose stored main category has a blank, from a table of two rows,
\* was matched and returned.
C29_Witness ==
    /\ ret.status = "returned"
    /\ Len(source.rows) = 2
    /\ LocalMatch = << <<"P", " ", "L">>, <<"I", "o">> >>
    /\ ret.result.classification_source = "keyword_matcher"

\* C30: a call that raises a validation error (an empty field, a pair outside
\* the taxonomy) has had a successful remote attempt, an object with both
\* keys, and leaves the failure counter at 0: such calls, however many in a
\* row, add nothing toward the threshold.
C30_ValidationFailureResetsCounter ==
    (pc = "idle" /\ ret.status = "raised"
        /\ ret.error \in {"Incomplete", "NotInStandard"}) =>
            /\ last_attempt.error = NoError
            /\ {"main_category", "sub_category"} \subseteq DOMAIN last_attempt.obj
            /\ continuous_api_failures = 0
            /\ failed_since_success = 0

\* A call whose first attempt failed and whose second brought a pair outside
\* the taxonomy: it raised, and the failure counted before is gone.
C30_Witness ==
    /\ pc = "idle"
    /\ ret = Raised("NotInStandard")
    /\ api_calls = 2
    /\ last_attempt.error = NoError
    /\ continuous_api_failures = 0

===========================================================================
